---- MODULE Spec2Model ----
(***************************************************************************)
(* A model of the hyperpolyglot command line program (src/bin/main.rs):    *)
(* grouping of the detections by language, the percentage summary, the     *)
(* file breakdown and the strategy breakdown, written to one output sink.  *)
(*                                                                         *)
(* Text is modelled as it is: a string is a sequence of one-character      *)
(* strings, a path is its raw text, and comparisons, formatting, pattern   *)
(* matching and path parsing are computed on those characters.             *)
(***************************************************************************)
EXTENDS Integers, Sequences, FiniteSets

(***************************************************************************)
(* Bounds of the model.                                                    *)
(***************************************************************************)
\* The largest number of files one scan reports.
MaxFiles == 4

\* The longest generated path text handed to strip_relative_parts.
MaxPathLen == 5

(***************************************************************************)
(* Text.                                                                   *)
(***************************************************************************)
\* The characters of the model in ascending byte order.
AsciiOrder ==
    << "\n", " ", "%", "(", ")", ".", "/",
       "0", "1", "2", "3", "4", "5", "6", "7", "8", "9",
       "A", "D", "E", "J", "M", "N", "O", "R", "S", "Z",
       "a", "b", "d", "e", "f", "g", "h", "i", "j", "k", "l", "m", "n",
       "o", "r", "s", "t", "u", "w", "x", "z" >>

\* The rank of a character in byte order.
Code(c) == CHOOSE i \in 1..Len(AsciiOrder) : AsciiOrder[i] = c

\* Ord for str: lexicographic comparison of the bytes.
RECURSIVE StrLess(_, _)
StrLess(a, b) ==
    IF b = <<>> THEN FALSE
    ELSE IF a = <<>> THEN TRUE
    ELSE IF Head(a) # Head(b) THEN Code(Head(a)) < Code(Head(b))
    ELSE StrLess(Tail(a), Tail(b))

\* The text of a sequence of texts, one after the other.
RECURSIVE Concat(_)
Concat(ss) == IF ss = <<>> THEN <<>> ELSE Head(ss) \o Concat(Tail(ss))

DigitChars == << "0", "1", "2", "3", "4", "5", "6", "7", "8", "9" >>

\* "{}" of an unsigned integer: its decimal digits.
RECURSIVE Digits(_)
Digits(n) ==
    IF n < 10 THEN << DigitChars[n + 1] >>
    ELSE Digits(n \div 10) \o << DigitChars[(n % 10) + 1] >>

\* num / den rounded to the nearest integer, a tie going to the even one.
RoundHalfEven(num, den) ==
    LET q == num \div den
        r == num % den
    IN  IF 2 * r < den THEN q
        ELSE IF 2 * r > den THEN q + 1
        ELSE IF q % 2 = 0 THEN q ELSE q + 1

\* "{:.2}" of the f64 num / den (num >= 0, den >= 0): two decimal digits,
\* and the float's own text when the divisor is zero.
FormatF2(num, den) ==
    IF den = 0
    THEN IF num = 0 THEN << "N", "a", "N" >> ELSE << "i", "n", "f" >>
    ELSE LET h == RoundHalfEven(num * 100, den)
         IN  Digits(h \div 100) \o << "." >>
                 \o << DigitChars[((h % 100) \div 10) + 1],
                       DigitChars[(h % 10) + 1] >>

(***************************************************************************)
(* Paths (std::path on a Unix target).                                     *)
(***************************************************************************)
\* The index of the first separator of p, or 0.
FirstSep(p) ==
    IF \E i \in 1..Len(p) : p[i] = "/"
    THEN CHOOSE i \in 1..Len(p) : p[i] = "/" /\ \A j \in 1..(i - 1) : p[j] # "/"
    ELSE 0

\* The index of the last separator of p, or 0.
LastSep(p) ==
    IF \E i \in 1..Len(p) : p[i] = "/"
    THEN CHOOSE i \in 1..Len(p) :
             p[i] = "/" /\ \A j \in (i + 1)..Len(p) : p[j] # "/"
    ELSE 0

NoComponent == [kind |-> "None", name |-> <<>>]

\* Components::parse_single_component: an empty piece and a "." inside the
\* path are no component.
ParseSingleComponent(comp) ==
    IF comp = <<>> \/ comp = << "." >> THEN NoComponent
    ELSE IF comp = << ".", "." >> THEN [kind |-> "ParentDir", name |-> <<>>]
    ELSE [kind |-> "Normal", name |-> comp]

\* The text of the next piece of p, up to its first separator.
FrontPiece(p) == IF FirstSep(p) = 0 THEN p ELSE SubSeq(p, 1, FirstSep(p) - 1)

\* The text of p after its next piece and the separator that ends it.
AfterFrontPiece(p) ==
    IF FirstSep(p) = 0 THEN <<>> ELSE SubSeq(p, FirstSep(p) + 1, Len(p))

\* The text of the last piece of p, after its last separator.
BackPiece(p) == SubSeq(p, LastSep(p) + 1, Len(p))

\* The text of p before its last piece and the separator that starts it.
BeforeBackPiece(p) ==
    IF LastSep(p) = 0 THEN <<>> ELSE SubSeq(p, 1, LastSep(p) - 1)

HasRoot(p) == p # <<>> /\ p[1] = "/"

\* Components::include_cur_dir: a leading "." that is the whole path or is
\* followed by a separator.
IncludeCurDir(p) ==
    /\ ~HasRoot(p)
    /\ p # <<>>
    /\ p[1] = "."
    /\ (Len(p) = 1 \/ p[2] = "/")

\* The components of the body of a path.
RECURSIVE BodyComponents(_)
BodyComponents(p) ==
    IF p = <<>> THEN <<>>
    ELSE LET c == ParseSingleComponent(FrontPiece(p))
         IN  (IF c = NoComponent THEN <<>> ELSE << c >>)
                 \o BodyComponents(AfterFrontPiece(p))

\* Path::components.
Components(p) ==
    IF HasRoot(p)
    THEN << [kind |-> "RootDir", name |-> <<>>] >> \o BodyComponents(Tail(p))
    ELSE IF IncludeCurDir(p)
    THEN << [kind |-> "CurDir", name |-> <<>>] >> \o BodyComponents(Tail(p))
    ELSE BodyComponents(p)

\* Components::trim_left: drop the leading pieces that are no component.
RECURSIVE TrimLeft(_)
TrimLeft(p) ==
    IF p = <<>> THEN p
    ELSE IF ParseSingleComponent(FrontPiece(p)) # NoComponent THEN p
    ELSE TrimLeft(AfterFrontPiece(p))

\* Components::trim_right: drop the trailing pieces that are no component.
RECURSIVE TrimRight(_)
TrimRight(p) ==
    IF p = <<>> THEN p
    ELSE IF ParseSingleComponent(BackPiece(p)) # NoComponent THEN p
    ELSE TrimRight(BeforeBackPiece(p))

\* Whether a sequence starts with another.
IsPrefix(s, t) == Len(s) <= Len(t) /\ SubSeq(t, 1, Len(s)) = s

\* Path::starts_with: the components of base start those of p.
PathStartsWith(p, base) == IsPrefix(Components(base), Components(p))

\* The text "./".
DotSlash == << ".", "/" >>

\* Path::strip_prefix("./") of a path that starts with it: the text left
\* once the leading "." component is consumed (Components::as_path).
StripDotSlash(p) == TrimRight(TrimLeft(Tail(p)))

\* The rank of a component kind in the derived Ord of Component.
KindRank(k) ==
    CASE k = "RootDir" -> 1
      [] k = "CurDir" -> 2
      [] k = "ParentDir" -> 3
      [] k = "Normal" -> 4

ComponentLess(c, d) ==
    \/ KindRank(c.kind) < KindRank(d.kind)
    \/ c.kind = d.kind /\ c.kind = "Normal" /\ StrLess(c.name, d.name)

\* Lexicographic comparison of two component sequences.
RECURSIVE ComponentsLess(_, _)
ComponentsLess(a, b) ==
    IF b = <<>> THEN FALSE
    ELSE IF a = <<>> THEN TRUE
    ELSE IF Head(a) # Head(b) THEN ComponentLess(Head(a), Head(b))
    ELSE ComponentsLess(Tail(a), Tail(b))

\* Ord for PathBuf: by components.
PathLess(p, q) == ComponentsLess(Components(p), Components(q))

\* strip_relative_parts.
strip_relative_parts(path) ==
    IF PathStartsWith(path, DotSlash) THEN StripDotSlash(path) ELSE path

(***************************************************************************)
(* The scanned tree and the collaborators of the program.                  *)
(***************************************************************************)
Rust == << "R", "u", "s", "t" >>
Markdown == << "M", "a", "r", "k", "d", "o", "w", "n" >>
Shell == << "S", "h", "e", "l", "l" >>
JSON == << "J", "S", "O", "N" >>
Zed == << "Z", "e", "d" >>

Extension == << "E", "x", "t", "e", "n", "s", "i", "o", "n" >>
Shebang == << "S", "h", "e", "b", "a", "n", "g" >>

\* The files a scan can report: each with the language the engine detects
\* for it and the variant of the detection. The language table holds Rust
\* and Shell (programming), Markdown (markup) and JSON (data), and does not
\* hold Zed.
Files ==
    << [file |-> << ".", "/", "a", ".", "r", "s" >>,
        language |-> Rust, detection |-> Extension],
       [file |-> << ".", "/", "b", ".", "r", "s" >>,
        language |-> Rust, detection |-> Extension],
       [file |-> << "R", "E", "A", "D", "M", "E", ".", "m", "d" >>,
        language |-> Markdown, detection |-> Extension],
       [file |-> << ".", "/", "r", "u", "n" >>,
        language |-> Shell, detection |-> Shebang],
       [file |-> << "d", ".", "j", "s", "o", "n" >>,
        language |-> JSON, detection |-> Extension],
       [file |-> << ".", "/", "x" >>,
        language |-> Zed, detection |-> Shebang] >>

FileIds == 1..Len(Files)

Min(a, b) == IF a <= b THEN a ELSE b

\* The orders in which a scan can report at most MaxFiles distinct files.
ScanOrders ==
    UNION { { s \in [1..n -> FileIds] :
                \A i, j \in 1..n : i # j => s[i] # s[j] } :
            n \in 0..Min(MaxFiles, Len(Files)) }

\* The (Detection, PathBuf) pairs of one language, in scan order.
RECURSIVE FilesOfLanguage(_, _)
FilesOfLanguage(scan, language) ==
    IF scan = <<>> THEN <<>>
    ELSE LET f == Files[Head(scan)]
         IN  (IF f.language = language
              THEN << [detection |-> f.detection, file |-> f.file] >>
              ELSE <<>>)
                 \o FilesOfLanguage(Tail(scan), language)

\* get_language_breakdown: the map from each detected language to its
\* files; a language is a key only once a file was detected as it.
get_language_breakdown(scan) ==
    [ language \in { Files[scan[i]].language : i \in 1..Len(scan) } |->
          FilesOfLanguage(scan, language) ]

\* get_language_info(name).map(|l| l.language_type), "None" for a name
\* the language table does not hold.
get_language_type(language_name) ==
    CASE language_name = Rust -> "Programming"
      [] language_name = Shell -> "Programming"
      [] language_name = Markdown -> "Markup"
      [] language_name = JSON -> "Data"
      [] OTHER -> "None"

\* The iteration orders of a HashMap with these keys: any order of them.
IterOrders(keys) ==
    { s \in [1..Cardinality(keys) -> keys] :
        \A i, j \in 1..Cardinality(keys) : i # j => s[i] # s[j] }

(***************************************************************************)
(* The filter pattern (the regex crate, for the patterns of the model).    *)
(***************************************************************************)
\* The nesting depth of the groups of a pattern after its last character,
\* or -1 once a group is closed that was never opened.
RECURSIVE GroupDepth(_, _)
GroupDepth(f, depth) ==
    IF depth < 0 \/ f = <<>> THEN depth
    ELSE IF Head(f) = "(" THEN GroupDepth(Tail(f), depth + 1)
    ELSE IF Head(f) = ")" THEN GroupDepth(Tail(f), depth - 1)
    ELSE GroupDepth(Tail(f), depth)

\* Regex::new(f).is_ok(): every group of the pattern is closed.
RegexIsOk(f) == GroupDepth(f, 0) = 0

\* Regex::is_match of a pattern of literal characters: the pattern occurs
\* somewhere in the text (the match is not anchored).
is_match(filter, text) ==
    \E i \in 1..(Len(text) + 1) :
        /\ i + Len(filter) - 1 <= Len(text)
        /\ SubSeq(text, i, i + Len(filter) - 1) = filter

\* The values of --filter the model runs with: none (an empty sequence),
\* or one pattern.
FilterArgs ==
    { <<>>, << << "t" >> >>, << << "z", "z" >> >>, << << "(" >> >> }

\* The command lines of the model.
CommandLines ==
    [ file_breakdown : BOOLEAN, strategy_breakdown : BOOLEAN,
      condensed : BOOLEAN, filter : FilterArgs ]

(***************************************************************************)
(* The output sink: the operations the program performs on standard        *)
(* output, each tagged with the function that performs it.                 *)
(***************************************************************************)
SetColor(by, color) ==
    [by |-> by, op |-> "set_color", color |-> color, text |-> <<>>]

Write(by, text) == [by |-> by, op |-> "write", color |-> "", text |-> text]

(***************************************************************************)
(* LanguageGrouper: main, lines 24-33.                                     *)
(***************************************************************************)
\* A filter that keeps every language, whatever its type.
IsReportedWhateverType(language_name) == TRUE

\* Whether the filter of lines 26-31 keeps a language.
IsReported(language_name) ==
    get_language_type(language_name) \in { "Markup", "Programming" }

\* sort_by(|(_, a), (_, b)| b.len().cmp(&a.len())) inserts one element into
\* a sorted sequence: behind every element whose files are not fewer (the
\* sort is stable).
RECURSIVE InsertByLenDesc(_, _)
InsertByLenDesc(sorted, x) ==
    IF sorted = <<>> THEN << x >>
    ELSE IF Len(Head(sorted).files) >= Len(x.files)
    THEN << Head(sorted) >> \o InsertByLenDesc(Tail(sorted), x)
    ELSE << x >> \o sorted

\* The stable sort by descending number of files.
RECURSIVE SortByLenDesc(_)
SortByLenDesc(xs) ==
    IF xs = <<>> THEN <<>>
    ELSE InsertByLenDesc(SortByLenDesc(SubSeq(xs, 1, Len(xs) - 1)),
                         xs[Len(xs)])

\* language_count of lines 24-33, the map being iterated in this order.
LanguageGrouper(map, order) ==
    LET collected ==
            [ i \in 1..Len(order) |->
                  [language |-> order[i], files |-> map[order[i]]] ]
        kept == SelectSeq(collected, LAMBDA g : IsReported(g.language))
    IN  SortByLenDesc(kept)

(***************************************************************************)
(* print_language_split: lines 91-99.                                      *)
(***************************************************************************)
RECURSIVE SumLen(_)
SumLen(language_counts) ==
    IF language_counts = <<>> THEN 0
    ELSE Len(Head(language_counts).files) + SumLen(Tail(language_counts))

\* The line println! writes for one language.
SplitLine(group, total) ==
    Write("print_language_split",
          FormatF2(Len(group.files) * 100, total)
              \o << "%", " " >> \o group.language \o << "\n" >>)

\* The lines of the percentage summary, one per element of the sequence.
PrintLanguageSplitOps(language_counts) ==
    [ i \in 1..Len(language_counts) |->
          SplitLine(language_counts[i], SumLen(language_counts)) ]

(***************************************************************************)
(* print_file_breakdown: lines 101-123.                                    *)
(***************************************************************************)
\* " ({})\n" of a count.
CountText(n) == << " ", "(" >> \o Digits(n) \o << ")", "\n" >>

\* The header of a group: its name in the title colour, then its count.
HeaderOps(by, name, count) ==
    << SetColor(by, "TITLE_COLOR"), Write(by, name),
       SetColor(by, "DEFAULT_COLOR"), Write(by, CountText(count)) >>

\* The lines of the files of one language without the empty line.
FileLineOpsNoBlankLine(breakdowns) ==
    [ i \in 1..Len(breakdowns) |->
          Write("print_file_breakdown",
                strip_relative_parts(breakdowns[i].file) \o << "\n" >>) ]

\* The lines of the files of one language, then the empty line.
FileLineOps(breakdowns) ==
    [ i \in 1..Len(breakdowns) |->
          Write("print_file_breakdown",
                strip_relative_parts(breakdowns[i].file) \o << "\n" >>) ]
        \o << Write("print_file_breakdown", << "\n" >>) >>

\* A loop body that does not look at condensed_output.
FileGroupOpsNotCondensed(group, options) ==
    IF is_match(options.filter, group.language)
    THEN HeaderOps("print_file_breakdown", group.language, Len(group.files))
             \o FileLineOps(group.files)
    ELSE <<>>

\* What the loop body of lines 107-120 performs for one language.
FileGroupOps(group, options) ==
    IF is_match(options.filter, group.language)
    THEN HeaderOps("print_file_breakdown", group.language, Len(group.files))
             \o (IF ~options.condensed_output
                 THEN FileLineOps(group.files) ELSE <<>>)
    ELSE <<>>

\* Every operation of print_file_breakdown when none is rejected.
PrintFileBreakdownOps(language_counts, options) ==
    Concat([ i \in 1..Len(language_counts) |->
                 FileGroupOps(language_counts[i], options) ])

(***************************************************************************)
(* print_strategy_breakdown: lines 125-165.                                *)
(***************************************************************************)
\* insert(key, heap of the item alone): the heap of the key is replaced.
EntryInsert(map, key, item) ==
    [ k \in DOMAIN map \cup { key } |->
          IF k = key THEN << item >> ELSE map[k] ]

\* entry(key).or_insert(BinaryHeap::new()) and push: the heap of the key
\* (a new one the first time) gets the item. A heap is kept as the sequence
\* of its items in the order they were pushed.
EntryPush(map, key, item) ==
    [ k \in DOMAIN map \cup { key } |->
          IF k = key
          THEN (IF key \in DOMAIN map THEN map[key] ELSE <<>>) \o << item >>
          ELSE map[k] ]

\* The inner loop of lines 131-136 over the files of one language.
RECURSIVE PushFiles(_, _, _)
PushFiles(map, language, files) ==
    IF files = <<>> THEN map
    ELSE PushFiles(EntryPush(map, Head(files).detection,
                             [language |-> language,
                              file |-> Head(files).file]),
                   language, Tail(files))

\* The outer loop of lines 130-137: strategy_breakdown.
RECURSIVE StrategyAggregator(_, _)
StrategyAggregator(map, language_counts) ==
    IF language_counts = <<>> THEN map
    ELSE StrategyAggregator(
             PushFiles(map, Head(language_counts).language,
                       Head(language_counts).files),
             Tail(language_counts))

\* The map before the loops: no key.
EmptyMap == [ k \in {} |-> <<>> ]

\* Ord for (&&str, &PathBuf): by the language name, then by the path.
PairLess(a, b) ==
    \/ StrLess(a.language, b.language)
    \/ a.language = b.language /\ PathLess(a.file, b.file)

\* The index of the item BinaryHeap<Reverse<_>>::pop returns: a least one.
HeapPopIndex(heap) ==
    CHOOSE i \in 1..Len(heap) :
        /\ \A j \in 1..Len(heap) : ~PairLess(heap[j], heap[i])
        /\ \A j \in 1..(i - 1) : PairLess(heap[i], heap[j])

\* The heap without its item at index i.
RemoveAt(heap, i) == SubSeq(heap, 1, i - 1) \o SubSeq(heap, i + 1, Len(heap))

\* The items in the order they were pushed, as a Vec would yield them.
PopAllInInsertionOrder(heap) == heap

\* The items the loop of line 152 pops, in the order it pops them.
RECURSIVE PopAll(_)
PopAll(heap) ==
    IF heap = <<>> THEN <<>>
    ELSE << heap[HeapPopIndex(heap)] >>
             \o PopAll(RemoveAt(heap, HeapPopIndex(heap)))

\* strategy_breakdowns of lines 139-141, the map being iterated in this
\* order.
SortedStrategies(map, order) ==
    SortByLenDesc([ i \in 1..Len(order) |->
                        [strategy |-> order[i], files |-> map[order[i]]] ])

\* The lines 153-158 for one popped pair.
ItemOps(pair) ==
    << SetColor("print_strategy_breakdown", "DEFAULT_COLOR"),
       Write("print_strategy_breakdown", strip_relative_parts(pair.file)),
       SetColor("print_strategy_breakdown", "LANGUAGE_COLOR"),
       Write("print_strategy_breakdown",
             << " ", "(" >> \o pair.language \o << ")", "\n" >>) >>

\* The lines of the pairs of one strategy, then the empty line.
ItemLineOps(breakdowns) ==
    Concat([ i \in 1..Len(breakdowns) |-> ItemOps(PopAll(breakdowns)[i]) ])
        \o << Write("print_strategy_breakdown", << "\n" >>) >>

\* What the loop body of lines 145-162 performs for one strategy.
StrategyGroupOps(group, options) ==
    IF is_match(options.filter, group.strategy)
    THEN HeaderOps("print_strategy_breakdown", group.strategy,
                   Len(group.files))
             \o (IF ~options.condensed_output
                 THEN ItemLineOps(group.files) ELSE <<>>)
    ELSE <<>>

\* Every operation of the loop of lines 144-163 when none is rejected.
PrintStrategyBreakdownOps(strategy_breakdowns, options) ==
    Concat([ i \in 1..Len(strategy_breakdowns) |->
                 StrategyGroupOps(strategy_breakdowns[i], options) ])

(***************************************************************************)
(* The state of one run of the program.                                    *)
(***************************************************************************)
VARIABLES
    pc,                   \* where the run is
    matches,              \* the parsed command line
    engine_calls,         \* how often get_language_breakdown was called
    breakdown,            \* the map get_language_breakdown returned
    language_count,       \* main's sorted vector, the printers' argument
    cli_options,          \* main's CLIOptions, an empty sequence before
    strategy_breakdowns,  \* print_strategy_breakdown's sorted vector
    pending,              \* what the running printer has yet to perform
    out,                  \* the operations the sink accepted
    attempts,             \* the operations performed on the sink
    failed,               \* the function whose operation the sink rejected
    exit_status,          \* the exit status, an empty sequence while running
    path,                 \* the argument of a lone strip_relative_parts call
    stripped              \* its result, an empty sequence before

vars ==
    << pc, matches, engine_calls, breakdown, language_count, cli_options,
       strategy_breakdowns, pending, out, attempts, failed, exit_status,
       path, stripped >>

Init ==
    /\ pc = "main"
    /\ matches \in CommandLines
    /\ engine_calls = 0
    /\ breakdown = EmptyMap
    /\ language_count = <<>>
    /\ cli_options = <<>>
    /\ strategy_breakdowns = <<>>
    /\ pending = <<>>
    /\ out = <<>>
    /\ attempts = 0
    /\ failed = "none"
    /\ exit_status = <<>>
    /\ path = <<>>
    /\ stripped = <<>>

\* A panic: the process ends with status 101 and nothing more is written
\* to the sink.
Panic ==
    /\ pc' = "exited"
    /\ exit_status' = << 101 >>
    /\ pending' = <<>>

\* println! whose write the sink rejects: a panic.
PrintlnRejected(by) ==
    /\ attempts' = attempts + 1
    /\ failed' = by
    /\ out' = out
    /\ Panic

\* Line 22: the engine is called.
GetLanguageBreakdown ==
    /\ pc = "main"
    /\ \E scan \in ScanOrders : breakdown' = get_language_breakdown(scan)
    /\ engine_calls' = engine_calls + 1
    /\ pc' = "group"
    /\ UNCHANGED << matches, language_count, cli_options, strategy_breakdowns,
                    pending, out, attempts, failed, exit_status, path,
                    stripped >>

\* Lines 24-34: the map is iterated, filtered and sorted, and
\* print_language_split is entered.
GroupLanguages ==
    /\ pc = "group"
    /\ \E order \in IterOrders(DOMAIN breakdown) :
           language_count' = LanguageGrouper(breakdown, order)
    /\ pending' = PrintLanguageSplitOps(language_count')
    /\ pc' = "print_language_split"
    /\ UNCHANGED << matches, engine_calls, breakdown, cli_options,
                    strategy_breakdowns, out, attempts, failed, exit_status,
                    path, stripped >>

\* Line 97: one line of the summary is written, or the write panics.
PrintLanguageSplit ==
    /\ pc = "print_language_split"
    /\ pending # <<>>
    /\ \/ /\ out' = Append(out, Head(pending))
          /\ attempts' = attempts + 1
          /\ pending' = Tail(pending)
          /\ UNCHANGED << pc, failed, exit_status >>
       \/ PrintlnRejected("print_language_split")
    /\ UNCHANGED << matches, engine_calls, breakdown, language_count,
                    cli_options, strategy_breakdowns, path, stripped >>

\* Lines 36-42, once print_language_split has returned: the options are
\* built, and a pattern that does not compile panics.
ParseCliOptions ==
    /\ pc = "print_language_split"
    /\ pending = <<>>
    /\ \/ /\ matches.filter = <<>>
          /\ cli_options' = << [condensed_output |-> matches.condensed,
                                filter |-> <<>>] >>
          /\ pc' = "file_breakdown"
          /\ UNCHANGED << pending, exit_status >>
       \/ /\ matches.filter # <<>>
          /\ RegexIsOk(matches.filter[1])
          /\ cli_options' = << [condensed_output |-> matches.condensed,
                                filter |-> matches.filter[1]] >>
          /\ pc' = "file_breakdown"
          /\ UNCHANGED << pending, exit_status >>
       \/ /\ matches.filter # <<>>
          /\ ~RegexIsOk(matches.filter[1])
          /\ Panic
          /\ UNCHANGED cli_options
    /\ UNCHANGED << matches, engine_calls, breakdown, language_count,
                    strategy_breakdowns, out, attempts, failed, path,
                    stripped >>

\* Lines 44-46: without -b nothing; with it the empty line, then
\* print_file_breakdown is entered.
StartFileBreakdown ==
    /\ pc = "file_breakdown"
    /\ \/ /\ ~matches.file_breakdown
          /\ pc' = "strategy_breakdown"
          /\ UNCHANGED << pending, out, attempts, failed, exit_status >>
       \/ /\ matches.file_breakdown
          /\ out' = Append(out, Write("main", << "\n" >>))
          /\ attempts' = attempts + 1
          /\ pending' = PrintFileBreakdownOps(language_count, cli_options[1])
          /\ pc' = "print_file_breakdown"
          /\ UNCHANGED << failed, exit_status >>
       \/ /\ matches.file_breakdown
          /\ PrintlnRejected("main")
    /\ UNCHANGED << matches, engine_calls, breakdown, language_count,
                    cli_options, strategy_breakdowns, path, stripped >>

\* The sink accepts the next operation of the running printer.
WriteAccepted ==
    /\ pc \in { "print_file_breakdown", "print_strategy_breakdown" }
    /\ pending # <<>>
    /\ out' = Append(out, Head(pending))
    /\ attempts' = attempts + 1
    /\ pending' = Tail(pending)
    /\ UNCHANGED << pc, matches, engine_calls, breakdown, language_count,
                    cli_options, strategy_breakdowns, failed, exit_status,
                    path, stripped >>

\* The rejected operation's error is dropped and the printer goes on.
WriteRejectedIgnored ==
    /\ pc \in { "print_file_breakdown", "print_strategy_breakdown" }
    /\ pending # <<>>
    /\ attempts' = attempts + 1
    /\ failed' = pc
    /\ pending' = Tail(pending)
    /\ UNCHANGED << pc, matches, engine_calls, breakdown, language_count,
                    cli_options, strategy_breakdowns, out, exit_status, path,
                    stripped >>

\* The sink rejects the next operation of the running printer: `?` returns
\* the error at once and main exits with status 1 (lines 46-48, 53-55).
WriteRejected ==
    /\ pc \in { "print_file_breakdown", "print_strategy_breakdown" }
    /\ pending # <<>>
    /\ attempts' = attempts + 1
    /\ failed' = pc
    /\ pending' = <<>>
    /\ pc' = "exited"
    /\ exit_status' = << 1 >>
    /\ UNCHANGED << matches, engine_calls, breakdown, language_count,
                    cli_options, strategy_breakdowns, out, path, stripped >>

\* Line 122: print_file_breakdown returns Ok(()).
ReturnFileBreakdown ==
    /\ pc = "print_file_breakdown"
    /\ pending = <<>>
    /\ pc' = "strategy_breakdown"
    /\ UNCHANGED << matches, engine_calls, breakdown, language_count,
                    cli_options, strategy_breakdowns, pending, out, attempts,
                    failed, exit_status, path, stripped >>

\* Lines 51-53 and 129-141: without -s main returns; with it the empty
\* line, then print_strategy_breakdown builds and sorts its buckets.
StartStrategyBreakdown ==
    /\ pc = "strategy_breakdown"
    /\ \/ /\ ~matches.strategy_breakdown
          /\ pc' = "done"
          /\ exit_status' = << 0 >>
          /\ UNCHANGED << strategy_breakdowns, pending, out, attempts,
                          failed >>
       \/ /\ matches.strategy_breakdown
          /\ out' = Append(out, Write("main", << "\n" >>))
          /\ attempts' = attempts + 1
          /\ LET strategy_breakdown ==
                     StrategyAggregator(EmptyMap, language_count)
             IN  \E order \in IterOrders(DOMAIN strategy_breakdown) :
                     strategy_breakdowns' =
                         SortedStrategies(strategy_breakdown, order)
          /\ pending' = PrintStrategyBreakdownOps(strategy_breakdowns',
                                                  cli_options[1])
          /\ pc' = "print_strategy_breakdown"
          /\ UNCHANGED << failed, exit_status >>
       \/ /\ matches.strategy_breakdown
          /\ PrintlnRejected("main")
          /\ UNCHANGED strategy_breakdowns
    /\ UNCHANGED << matches, engine_calls, breakdown, language_count,
                    cli_options, path, stripped >>

\* Line 164 and the end of main: the run ends with status 0.
ReturnStrategyBreakdown ==
    /\ pc = "print_strategy_breakdown"
    /\ pending = <<>>
    /\ pc' = "done"
    /\ exit_status' = << 0 >>
    /\ UNCHANGED << matches, engine_calls, breakdown, language_count,
                    cli_options, strategy_breakdowns, pending, out, attempts,
                    failed, path, stripped >>

Next ==
    \/ GetLanguageBreakdown
    \/ GroupLanguages
    \/ PrintLanguageSplit
    \/ ParseCliOptions
    \/ StartFileBreakdown
    \/ WriteAccepted
    \/ WriteRejected
    \/ ReturnFileBreakdown
    \/ StartStrategyBreakdown
    \/ ReturnStrategyBreakdown

Spec == Init /\ [][Next]_vars

(***************************************************************************)
(* print_language_split on its own: the function is entered with any       *)
(* vector of its parameter type, the file vectors of which may be empty.   *)
(***************************************************************************)
\* The first n (Detection, PathBuf) pairs of the scanned tree.
FirstFiles(n) ==
    [ i \in 1..n |-> [detection |-> Files[i].detection, file |-> Files[i].file] ]

\* The vectors print_language_split is entered with.
SplitInputs ==
    { [ i \in 1..Len(names) |->
            [language |-> names[i], files |-> FirstFiles(sizes[i])] ] :
        << names, sizes >> \in
            UNION { IterOrders(chosen)
                        \X [1..Cardinality(chosen) -> 0..Min(MaxFiles, Len(Files))] :
                    chosen \in SUBSET { Rust, Markdown, Shell } } }

\* The command line without any flag.
NoFlags ==
    [file_breakdown |-> FALSE, strategy_breakdown |-> FALSE,
     condensed |-> FALSE, filter |-> <<>>]

InitSplit ==
    /\ pc = "print_language_split"
    /\ matches = NoFlags
    /\ engine_calls = 1
    /\ breakdown = EmptyMap
    /\ language_count \in SplitInputs
    /\ cli_options = <<>>
    /\ strategy_breakdowns = <<>>
    /\ pending = PrintLanguageSplitOps(language_count)
    /\ out = <<>>
    /\ attempts = 0
    /\ failed = "none"
    /\ exit_status = <<>>
    /\ path = <<>>
    /\ stripped = <<>>

NextSplit == PrintLanguageSplit

SpecSplit == InitSplit /\ [][NextSplit]_vars

(***************************************************************************)
(* strip_relative_parts on its own: the function is called with any path.  *)
(***************************************************************************)
\* The path texts of the model: every text of at most MaxPathLen of these
\* characters, and the paths the documentation names.
PathInputs ==
    UNION { [1..n -> { ".", "/", "a" }] : n \in 0..MaxPathLen }
        \cup { << ".", "/", "a", "/", "b", ".", "r", "s" >>,
               << "a", "/", "b", ".", "r", "s" >>,
               << ".", ".", "/", "a", ".", "r", "s" >> }

InitPath ==
    /\ pc = "strip_relative_parts"
    /\ matches = NoFlags
    /\ engine_calls = 0
    /\ breakdown = EmptyMap
    /\ language_count = <<>>
    /\ cli_options = <<>>
    /\ strategy_breakdowns = <<>>
    /\ pending = <<>>
    /\ out = <<>>
    /\ attempts = 0
    /\ failed = "none"
    /\ exit_status = <<>>
    /\ path \in PathInputs
    /\ stripped = <<>>

\* Lines 167-173: the call returns the stripped path.
StripRelativeParts ==
    /\ pc = "strip_relative_parts"
    /\ stripped' = << strip_relative_parts(path) >>
    /\ pc' = "returned"
    /\ UNCHANGED << matches, engine_calls, breakdown, language_count,
                    cli_options, strategy_breakdowns, pending, out, attempts,
                    failed, exit_status, path >>

NextPath == StripRelativeParts

SpecPath == InitPath /\ [][NextPath]_vars

(***************************************************************************)
(* Properties.                                                             *)
(***************************************************************************)
\* The text the accepted operations put on the sink, styles left out.
RECURSIVE Text(_)
Text(ops) == IF ops = <<>> THEN <<>> ELSE Head(ops).text \o Text(Tail(ops))

\* The operations of a sequence that one function performed.
OpsBy(ops, by) == SelectSeq(ops, LAMBDA o : o.by = by)

\* The run was given a filter pattern that does not compile.
InvalidFilter == matches.filter # <<>> /\ ~RegexIsOk(matches.filter[1])

\* The process has ended.
Terminated == pc \in { "done", "exited" }

\* C1: with a malformed filter pattern the engine is never called and
\* nothing is ever written to the sink; the run ends with a status other
\* than 0.
C1_InvalidFilterFatalAtStartup ==
    InvalidFilter =>
        /\ engine_calls = 0
        /\ out = <<>>
        /\ Terminated => exit_status # << 0 >>

\* Everything a run puts on the sink when no write is rejected, the two
\* maps being iterated in these orders.
RunOutput(map, m, language_order, strategy_order) ==
    LET lc == LanguageGrouper(map, language_order)
        options == [condensed_output |-> m.condensed,
                    filter |-> IF m.filter = <<>> THEN <<>> ELSE m.filter[1]]
        sb == SortedStrategies(StrategyAggregator(EmptyMap, lc),
                               strategy_order)
    IN  PrintLanguageSplitOps(lc)
            \o (IF m.file_breakdown
                THEN << Write("main", << "\n" >>) >>
                         \o PrintFileBreakdownOps(lc, options)
                ELSE <<>>)
            \o (IF m.strategy_breakdown
                THEN << Write("main", << "\n" >>) >>
                         \o PrintStrategyBreakdownOps(sb, options)
                ELSE <<>>)

\* C2: a run that completes wrote what every other run on the same
\* detections writes, whatever the iteration orders of the two maps.
C2_OutputIsDeterministic ==
    pc = "done" =>
        \A language_order \in IterOrders(DOMAIN breakdown) :
            LET keys == DOMAIN StrategyAggregator(
                            EmptyMap,
                            LanguageGrouper(breakdown, language_order))
            IN  \A strategy_order \in IterOrders(keys) :
                    RunOutput(breakdown, matches, language_order,
                              strategy_order) = out

\* The file breakdown of this run has been written in full, item lines
\* included.
FileBreakdownWritten ==
    /\ matches.file_breakdown
    /\ ~matches.condensed
    /\ pc \in { "strategy_breakdown", "print_strategy_breakdown", "done" }

\* The groups of a sequence whose name the filter of the run matches.
Matching(groups, name(_)) ==
    SelectSeq(groups, LAMBDA g : is_match(cli_options[1].filter, name(g)))

LanguageOf(g) == g.language

StrategyOf(g) == g.strategy

\* "<name> (<count>)" and the end of the line.
HeaderText(name, count) == name \o << " ", "(" >> \o Digits(count) \o << ")", "\n" >>

\* The header of a language and the normalized path of each of its files,
\* one per line, in sequence order.
FileGroupText(g) ==
    HeaderText(g.language, Len(g.files))
        \o Concat([ i \in 1..Len(g.files) |->
                        strip_relative_parts(g.files[i].file) \o << "\n" >> ])

\* Texts with one empty line between each two of them.
RECURSIVE JoinWithBlankLine(_)
JoinWithBlankLine(texts) ==
    IF texts = <<>> THEN <<>>
    ELSE IF Len(texts) = 1 THEN texts[1]
    ELSE Head(texts) \o << "\n" >> \o JoinWithBlankLine(Tail(texts))

\* Texts with one empty line after each of them.
EachThenBlankLine(texts) ==
    Concat([ i \in 1..Len(texts) |-> texts[i] \o << "\n" >> ])

\* The text print_file_breakdown has put on the sink.
FileBreakdownText == Text(OpsBy(out, "print_file_breakdown"))

\* The text print_strategy_breakdown has put on the sink.
StrategyBreakdownText == Text(OpsBy(out, "print_strategy_breakdown"))

\* The detections {./a.rs, ./b.rs -> Rust, README.md -> Markdown}, grouped.
ExampleGroups ==
    << [language |-> Rust,
        files |-> << [detection |-> Extension, file |-> Files[1].file],
                     [detection |-> Extension, file |-> Files[2].file] >>],
       [language |-> Markdown,
        files |-> << [detection |-> Extension, file |-> Files[3].file] >>] >>

\* "Rust (2)\na.rs\nb.rs\n\nMarkdown (1)\nREADME.md\n"
ExampleText ==
    << "R", "u", "s", "t", " ", "(", "2", ")", "\n",
       "a", ".", "r", "s", "\n",
       "b", ".", "r", "s", "\n",
       "\n",
       "M", "a", "r", "k", "d", "o", "w", "n", " ", "(", "1", ")", "\n",
       "R", "E", "A", "D", "M", "E", ".", "m", "d", "\n" >>

\* The example is the run: its detections, every group matching.
IsExample == language_count = ExampleGroups /\ matches.filter = <<>>

\* The groups the file breakdown prints, as texts.
FileGroupTexts ==
    LET groups == Matching(language_count, LanguageOf)
    IN  [ i \in 1..Len(groups) |-> FileGroupText(groups[i]) ]

\* C3 as stated: the non-condensed file breakdown is the groups with one
\* empty line between consecutive groups, ending after the last file line.
C3_BlankLineBetweenGroupsOnly ==
    FileBreakdownWritten =>
        /\ FileBreakdownText = JoinWithBlankLine(FileGroupTexts)
        /\ IsExample => FileBreakdownText = ExampleText

\* C3 as amended: the non-condensed file breakdown is, for each language
\* matching the filter in grouped order, its header, its files' normalized
\* paths one per line in sequence order, and one empty line: the empty line
\* follows every group, the last one too.
C3_BlankLineAfterEveryGroup ==
    FileBreakdownWritten =>
        /\ FileBreakdownText = EachThenBlankLine(FileGroupTexts)
        /\ IsExample => FileBreakdownText = ExampleText \o << "\n" >>

\* The example's file breakdown has been written.
C3_Witness == FileBreakdownWritten /\ IsExample

\* print_strategy_breakdown has built its buckets.
Aggregated == pc = "print_strategy_breakdown"

\* The places of a path in the buckets: bucket and index in it.
BucketPlaces(file) ==
    { << b, i >> \in (1..Len(strategy_breakdowns)) \X (1..MaxFiles) :
        /\ i <= Len(strategy_breakdowns[b].files)
        /\ strategy_breakdowns[b].files[i].file = file }

\* The paths of the language sequences.
LanguagePaths ==
    { language_count[g].files[i].file :
        << g, i >> \in { << g, i >> \in (1..Len(language_count)) \X (1..MaxFiles) :
                           i <= Len(language_count[g].files) } }

\* The paths of the buckets.
BucketPaths ==
    { strategy_breakdowns[b].files[i].file :
        << b, i >> \in { << b, i >> \in (1..Len(strategy_breakdowns)) \X (1..MaxFiles) :
                           i <= Len(strategy_breakdowns[b].files) } }

\* C4: the strategy buckets partition the files: every file of every
\* language sequence is in exactly one bucket, the bucket of its own
\* strategy, under its own language; the buckets hold no other path; and
\* their sizes sum to the number of files.
C4_BucketsPartitionFiles ==
    Aggregated =>
        /\ \A g \in 1..Len(language_count) :
               \A i \in 1..Len(language_count[g].files) :
                   LET f == language_count[g].files[i]
                       places == BucketPlaces(f.file)
                   IN  /\ Cardinality(places) = 1
                       /\ \A pl \in places :
                              /\ strategy_breakdowns[pl[1]].strategy = f.detection
                              /\ strategy_breakdowns[pl[1]].files[pl[2]].language
                                     = language_count[g].language
        /\ BucketPaths = LanguagePaths
        /\ SumLen(strategy_breakdowns) = SumLen(language_count)
        /\ \A b, c \in 1..Len(strategy_breakdowns) :
               b # c => strategy_breakdowns[b].strategy
                            # strategy_breakdowns[c].strategy

\* Two buckets, one of them with two files.
C4_Witness ==
    /\ Aggregated
    /\ Len(strategy_breakdowns) = 2
    /\ Len(strategy_breakdowns[1].files) >= 2

\* The strategy breakdown of this run has been written in full, item lines
\* included.
StrategyBreakdownWritten ==
    /\ matches.strategy_breakdown
    /\ ~matches.condensed
    /\ pc = "done"

\* The pairs of a bucket in ascending (language, then path) order, each
\* pair once.
Ascending(files) ==
    CHOOSE s \in IterOrders({ files[i] : i \in 1..Len(files) }) :
        \A i, j \in 1..Len(s) : i < j => PairLess(s[i], s[j])

\* "<normalized path> (<language>)" and the end of the line.
ItemText(pair) ==
    strip_relative_parts(pair.file)
        \o << " ", "(" >> \o pair.language \o << ")", "\n" >>

\* The header of a strategy, then its pairs in ascending order, one line
\* each.
StrategyGroupText(g) ==
    HeaderText(g.strategy, Len(g.files))
        \o Concat([ i \in 1..Len(g.files) |-> ItemText(Ascending(g.files)[i]) ])

\* C5: the non-condensed strategy breakdown prints, under the header of
\* each strategy matching the filter, one line per pair of its bucket, in
\* ascending (language name, then path) order, then one empty line,
\* whatever the order the pairs were pushed in.
C5_ItemsAscending ==
    StrategyBreakdownWritten =>
        LET groups == Matching(strategy_breakdowns, StrategyOf)
        IN  StrategyBreakdownText =
                EachThenBlankLine([ i \in 1..Len(groups) |->
                                        StrategyGroupText(groups[i]) ])

\* A printed bucket whose pairs were pushed out of order.
C5_Witness ==
    /\ StrategyBreakdownWritten
    /\ \E b \in 1..Len(strategy_breakdowns) :
           /\ is_match(cli_options[1].filter, strategy_breakdowns[b].strategy)
           /\ Len(strategy_breakdowns[b].files) >= 2
           /\ PairLess(strategy_breakdowns[b].files[2],
                       strategy_breakdowns[b].files[1])

\* The sink rejected a write of one of the two breakdown printers.
BreakdownWriteFailed ==
    failed \in { "print_file_breakdown", "print_strategy_breakdown" }

\* What C6 says of a rejected write whatever the run: the render stops at
\* the rejected write, the strategy breakdown is not started after a
\* failure in the file breakdown, and the exit status is 1.
AbortsOnRejectedWrite ==
    /\ BreakdownWriteFailed =>
           /\ pc = "exited"
           /\ exit_status = << 1 >>
           /\ pending = <<>>
    /\ failed = "print_file_breakdown" =>
           /\ OpsBy(out, "print_strategy_breakdown") = <<>>
           /\ strategy_breakdowns = <<>>
           /\ Len(OpsBy(out, "main")) = 1

\* Once a write is rejected nothing more is performed on the sink, and what
\* the sink accepted stays.
NothingAfterRejectedWrite ==
    /\ failed # "none" => attempts' = attempts /\ out' = out
    /\ IsPrefix(out, out')

\* C6 as stated: a rejected write of a breakdown aborts the render at once,
\* nothing is written after it, the written lines stay, the exit status is
\* 1; and a run in which no write fails ends with status 0.
C6_ExitZeroUnlessWriteFails ==
    /\ [](AbortsOnRejectedWrite)
    /\ []((Terminated /\ failed = "none") => exit_status = << 0 >>)
    /\ [][NothingAfterRejectedWrite]_vars

\* C6 as amended: a rejected write of a breakdown aborts the render at
\* once, nothing is written after it, the written lines stay, the exit
\* status is 1; and a run in which no write fails and whose filter pattern
\* compiles ends with status 0.
C6_ExitZeroUnlessWriteFailsOrFilterInvalid ==
    /\ [](AbortsOnRejectedWrite)
    /\ []((Terminated /\ failed = "none" /\ ~InvalidFilter)
             => exit_status = << 0 >>)
    /\ [][NothingAfterRejectedWrite]_vars

\* A write of the file breakdown was rejected after others were accepted,
\* in a run that asked for the strategy breakdown too.
C6_Witness ==
    /\ failed = "print_file_breakdown"
    /\ OpsBy(out, "print_file_breakdown") # <<>>
    /\ matches.strategy_breakdown
    /\ exit_status = << 1 >>

\* C7: when the files of the vector print_language_split is given number
\* zero in all, it writes no line.
C7_ZeroTotalWritesNothing ==
    SumLen(language_count) = 0 => out = <<>> /\ attempts = 0

\* The percentage summary has been written in full.
SummaryWritten ==
    \/ pc \in { "file_breakdown", "print_file_breakdown", "strategy_breakdown",
                "print_strategy_breakdown", "done" }
    \/ pc = "exited" /\ failed # "print_language_split"

\* The detected languages whose type is markup or programming.
MarkupOrProgramming ==
    { l \in DOMAIN breakdown :
        get_language_type(l) \in { "Markup", "Programming" } }

\* The number of files of a set of detected languages.
RECURSIVE FileCount(_)
FileCount(languages) ==
    IF languages = {} THEN 0
    ELSE LET l == CHOOSE x \in languages : TRUE
         IN  Len(breakdown[l]) + FileCount(languages \ { l })

\* A number of hundredths with two decimal digits.
HundredthsText(h) ==
    Digits(h \div 100) \o << "." >> \o Digits((h % 100) \div 10)
        \o Digits(h % 10)

\* The text shows 100 x size / total to the nearest hundredth.
ShowsPercentage(text, size, total) ==
    \E h \in { (10000 * size) \div total, ((10000 * size) \div total) + 1 } :
        /\ 2 * h * total - 20000 * size <= total
        /\ 20000 * size - 2 * h * total <= total
        /\ text = HundredthsText(h)

\* C8: the percentage summary is one line per detected language of type
\* markup or programming and no other line, the lines are in non-increasing
\* order of file count, and each shows 100 x size / total of its language.
C8_SummaryLines ==
    SummaryWritten =>
        LET lines == OpsBy(out, "print_language_split")
            total == FileCount(MarkupOrProgramming)
        IN  \E order \in IterOrders(MarkupOrProgramming) :
                /\ Len(lines) = Len(order)
                /\ \A i \in 1..Len(order) :
                       \E shown \in { SubSeq(lines[i].text, 1, n) :
                                        n \in 1..Len(lines[i].text) } :
                           /\ ShowsPercentage(shown, Len(breakdown[order[i]]),
                                              total)
                           /\ lines[i].text =
                                  shown \o << "%", " " >> \o order[i]
                                      \o << "\n" >>
                /\ \A i \in 1..(Len(order) - 1) :
                       Len(breakdown[order[i]]) >= Len(breakdown[order[i + 1]])

\* A summary of two languages of different counts, a language of another
\* type having been detected too.
C8_Witness ==
    /\ SummaryWritten
    /\ JSON \in DOMAIN breakdown
    /\ Len(language_count) = 2
    /\ Len(language_count[1].files) > Len(language_count[2].files)

\* C9: strip_relative_parts returns the path without its first two
\* characters when these are "./", and the path itself otherwise.
C9_StripsLeadingDotSlashOnly ==
    pc = "returned" =>
        stripped = << IF IsPrefix(DotSlash, path)
                      THEN SubSeq(path, 3, Len(path))
                      ELSE path >>

\* A run in condensed mode has completed.
CondensedDone == pc = "done" /\ matches.condensed

\* The headers of the groups, one line each.
HeadersText(groups, name(_)) ==
    Concat([ i \in 1..Len(groups) |->
                 HeaderText(name(groups[i]), Len(groups[i].files)) ])

\* C10: in condensed mode each breakdown is one header line
\* "<name> (<count>)" per group whose name matches the filter, in order, and
\* nothing else: no item line, no empty line, nothing for a group that does
\* not match; and a run whose writes the sink accepts ends with status 0,
\* also when no group matches.
C10_CondensedHeadersOnly ==
    /\ (matches.condensed /\ Terminated /\ failed = "none" /\ ~InvalidFilter)
           => pc = "done"
    /\ CondensedDone =>
           /\ matches.file_breakdown =>
                  /\ FileBreakdownText =
                         HeadersText(Matching(language_count, LanguageOf),
                                     LanguageOf)
                  /\ Len(SelectSeq(OpsBy(out, "print_file_breakdown"),
                                   LAMBDA o : o.op = "write"))
                         = 2 * Len(Matching(language_count, LanguageOf))
           /\ ~matches.file_breakdown => FileBreakdownText = <<>>
           /\ matches.strategy_breakdown =>
                  /\ StrategyBreakdownText =
                         HeadersText(Matching(strategy_breakdowns, StrategyOf),
                                     StrategyOf)
                  /\ Len(SelectSeq(OpsBy(out, "print_strategy_breakdown"),
                                   LAMBDA o : o.op = "write"))
                         = 2 * Len(Matching(strategy_breakdowns, StrategyOf))
           /\ ~matches.strategy_breakdown => StrategyBreakdownText = <<>>
           /\ exit_status = << 0 >>

\* A condensed run of both breakdowns with a filter that matches one
\* language of two and one strategy of two.
C10_Witness ==
    /\ CondensedDone
    /\ matches.file_breakdown
    /\ matches.strategy_breakdown
    /\ Len(language_count) = 2
    /\ Len(Matching(language_count, LanguageOf)) = 1
    /\ Len(strategy_breakdowns) = 2
    /\ Len(Matching(strategy_breakdowns, StrategyOf)) = 1

====
